---- MODULE Spec2Model ----
(***************************************************************************)
(* Model of tests/test_runner.py: RTFValidator.is_valid_rtf,               *)
(* TextNormalizer.normalize and TextNormalizer.assert_normalized_equal.    *)
(*                                                                         *)
(* A Python str is a sequence of characters; a character is a one-letter   *)
(* string, except the typographic ones, which are written by name          *)
(* ("EMDASH", "ENDASH", "LDQUO", "RDQUO", "LSQUO", "RSQUO") and the        *)
(* control characters "\t" and "\n".                                       *)
(***************************************************************************)
EXTENDS Integers, Sequences, FiniteSets, TLC

VARIABLES
    pc,             \* position of the modelled call: "start", then "returned", ...
    content,        \* is_valid_rtf: the argument
    is_valid,       \* is_valid_rtf: first component of the returned tuple
    error_message,  \* is_valid_rtf: second component of the returned tuple
    text,           \* normalize: the argument of the first call
    normalized,     \* normalize: what the first call returned
    renormalized,   \* normalize: what the call on that result returned
    actual,         \* assert_normalized_equal: argument actual
    expected,       \* assert_normalized_equal: argument expected
    tolerance,      \* assert_normalized_equal: argument tolerance, in percent
    outcome,        \* assert_normalized_equal: "True", "False" or "AssertionError"
    report,         \* assert_normalized_equal: the counts the raised message carries
    rtf_content,    \* extract_visible_text: the argument
    plain_tokens,   \* the plain-text tokens rtf_content was built from, in order
    visible_text,   \* extract_visible_text: what the call returned
    API_KEY,        \* module level: TRUE when OPENAI_API_KEY is set and not empty
    MODEL_ID,       \* module level: TRUE when OPENAI_ASSISTANT_ID is set and not empty
    run_status,     \* call_custom_gpt: run.status, "none" before the run exists
    elapsed,        \* call_custom_gpt: time.time() - start_time, in ticks
    result,         \* call_custom_gpt: the returned value, "none" if nothing was
    raised          \* call_custom_gpt: the exception that reached the caller

rtfVars == <<content, is_valid, error_message>>
normVars == <<text, normalized, renormalized>>
cmpVars == <<actual, expected, tolerance, outcome, report>>
extractVars == <<rtf_content, plain_tokens, visible_text>>
pollVars == <<API_KEY, MODEL_ID, run_status, elapsed, result, raised>>
vars == <<pc, rtfVars, normVars, cmpVars, extractVars, pollVars>>

\* The variables of a component no call is made to.
RtfIdle == content = <<>> /\ is_valid = FALSE /\ error_message = <<>>
NormIdle == text = <<>> /\ normalized = <<>> /\ renormalized = <<>>
CmpIdle ==
    /\ actual = <<>>
    /\ expected = <<>>
    /\ tolerance = 0
    /\ outcome = "none"
    /\ report = <<>>
ExtractIdle == rtf_content = <<>> /\ plain_tokens = <<>> /\ visible_text = <<>>

\* No exception: the type "none" and an empty message.
NoException == [type |-> "none", message |-> <<>>]

PollIdle ==
    /\ API_KEY = FALSE
    /\ MODEL_ID = FALSE
    /\ run_status = "none"
    /\ elapsed = 0
    /\ result = "none"
    /\ raised = NoException

(***************************************************************************)
(* Bounds of the model.                                                    *)
(***************************************************************************)
\* Largest number of fragments an input of is_valid_rtf is built from.
MaxRtfFrags == 5
\* Largest number of fragments an input of normalize is built from.
MaxNormFrags == 3
\* Largest length of the argument actual of assert_normalized_equal.
MaxActualLen == 3
\* Largest length of the argument expected of assert_normalized_equal.
MaxExpectedLen == 3
\* Largest length of an argument of extract_visible_text given character by
\* character.
MaxRtfLen == 4
\* Largest number of items (plain-text tokens, control words, braces) in the
\* body of a built RTF document.
MaxItems == 3

(***************************************************************************)
(* Python str primitives.                                                  *)
(***************************************************************************)
\* str.isspace() of one character (the characters re's \s matches too).
IsSpace(c) == c \in {" ", "\t", "\n"}

\* The index of the first character of s at or after i that is not
\* whitespace; Len(s) + 1 when there is none.
RECURSIVE FirstNonSpace(_, _)
FirstNonSpace(s, i) ==
    IF i > Len(s) THEN i
    ELSE IF IsSpace(s[i]) THEN FirstNonSpace(s, i + 1) ELSE i

\* The index of the last character of s at or before i that is not
\* whitespace; 0 when there is none.
RECURSIVE LastNonSpace(_, _)
LastNonSpace(s, i) ==
    IF i < 1 THEN 0
    ELSE IF IsSpace(s[i]) THEN LastNonSpace(s, i - 1) ELSE i

\* Mutant of Strip: the argument is tested and matched untrimmed.
StripNone(s) == s

\* s.strip()
Strip(s) == SubSeq(s, FirstNonSpace(s, 1), LastNonSpace(s, Len(s)))

\* s.startswith(p)
StartsWith(s, p) == Len(s) >= Len(p) /\ SubSeq(s, 1, Len(p)) = p

\* s.endswith(p)
EndsWith(s, p) == Len(s) >= Len(p) /\ SubSeq(s, Len(s) - Len(p) + 1, Len(s)) = p

\* p in s
Contains(s, p) ==
    \E i \in 1..(Len(s) - Len(p) + 1) : SubSeq(s, i, i + Len(p) - 1) = p

UpperLetters ==
    <<"A", "B", "C", "D", "E", "F", "G", "H", "I", "J", "K", "L", "M",
      "N", "O", "P", "Q", "R", "S", "T", "U", "V", "W", "X", "Y", "Z">>
LowerLetters ==
    <<"a", "b", "c", "d", "e", "f", "g", "h", "i", "j", "k", "l", "m",
      "n", "o", "p", "q", "r", "s", "t", "u", "v", "w", "x", "y", "z">>

\* c.lower() of one character
LowerChar(c) ==
    IF \E i \in 1..26 : UpperLetters[i] = c
    THEN LowerLetters[CHOOSE i \in 1..26 : UpperLetters[i] = c]
    ELSE c

\* s.lower()
Lower(s) == [i \in 1..Len(s) |-> LowerChar(s[i])]

\* str(d) of one decimal digit d
DigitChar(d) == <<"0", "1", "2", "3", "4", "5", "6", "7", "8", "9">>[d + 1]

\* str(n) of a natural number n
RECURSIVE NatToStr(_)
NatToStr(n) ==
    IF n < 10 THEN <<DigitChar(n)>>
    ELSE NatToStr(n \div 10) \o <<DigitChar(n % 10)>>

\* str(n) of an integer n, as the f-string {brace_count} formats it
IntToStr(n) == IF n < 0 THEN <<"-">> \o NatToStr(-n) ELSE NatToStr(n)

\* The concatenation of a sequence of strings.
RECURSIVE Flatten(_)
Flatten(ss) == IF ss = <<>> THEN <<>> ELSE Head(ss) \o Flatten(Tail(ss))

(***************************************************************************)
(* RTFValidator.is_valid_rtf                                               *)
(***************************************************************************)
RtfHeader == <<"{", "\\", "r", "t", "f">>
AnsiMarker == <<"\\", "a", "n", "s", "i">>
MacMarker == <<"\\", "m", "a", "c">>
PcMarker == <<"\\", "p", "c">>

EmptyContentMsg ==
    <<"E", "m", "p", "t", "y", " ", "c", "o", "n", "t", "e", "n", "t">>
MissingHeaderMsg ==
    <<"M", "i", "s", "s", "i", "n", "g", " ", "R", "T", "F", " ", "h", "e",
      "a", "d", "e", "r", " ", "{", "\\", "r", "t", "f">>
MissingClosingMsg ==
    <<"M", "i", "s", "s", "i", "n", "g", " ", "c", "l", "o", "s", "i", "n",
      "g", " ", "b", "r", "a", "c", "e", " ", "}">>
MoreClosingMsg ==
    <<"U", "n", "b", "a", "l", "a", "n", "c", "e", "d", " ", "b", "r", "a",
      "c", "e", "s", " ", "(", "m", "o", "r", "e", " ", "c", "l", "o", "s",
      "i", "n", "g", " ", "t", "h", "a", "n", " ", "o", "p", "e", "n", "i",
      "n", "g", ")">>
DifferenceMsg(brace_count) ==
    <<"U", "n", "b", "a", "l", "a", "n", "c", "e", "d", " ", "b", "r", "a",
      "c", "e", "s", " ", "(", "d", "i", "f", "f", "e", "r", "e", "n", "c",
      "e", ":", " ">> \o IntToStr(brace_count) \o <<")">>
MissingCharsetMsg ==
    <<"M", "i", "s", "s", "i", "n", "g", " ", "c", "h", "a", "r", "a", "c",
      "t", "e", "r", " ", "s", "e", "t", " ", "d", "e", "c", "l", "a", "r",
      "a", "t", "i", "o", "n">>
ValidRtfMsg == <<"V", "a", "l", "i", "d", " ", "R", "T", "F">>

\* One iteration of `for char in content`: the counter after char.
BraceStep(brace_count, char) ==
    IF char = "{" THEN brace_count + 1
    ELSE IF char = "}" THEN brace_count - 1
    ELSE brace_count

\* Mutant of BraceScan: the early return taken at brace_count <= 0.
RECURSIVE BraceScanOffByOne(_, _, _)
BraceScanOffByOne(s, i, brace_count) ==
    IF i > Len(s) THEN [negative |-> FALSE, count |-> brace_count]
    ELSE LET c == BraceStep(brace_count, s[i])
         IN  IF c <= 0 THEN [negative |-> TRUE, count |-> c]
             ELSE BraceScanOffByOne(s, i + 1, c)

\* Mutant of BraceScan: no early return, only the final counter is looked at.
RECURSIVE BraceScanNoEarlyReturn(_, _, _)
BraceScanNoEarlyReturn(s, i, brace_count) ==
    IF i > Len(s) THEN [negative |-> FALSE, count |-> brace_count]
    ELSE BraceScanNoEarlyReturn(s, i + 1, BraceStep(brace_count, s[i]))

\* The loop over content from character i with the counter at brace_count:
\* [negative |-> TRUE] when the loop returns early, the final counter
\* otherwise.
RECURSIVE BraceScan(_, _, _)
BraceScan(s, i, brace_count) ==
    IF i > Len(s) THEN [negative |-> FALSE, count |-> brace_count]
    ELSE LET c == BraceStep(brace_count, s[i])
         IN  IF c < 0 THEN [negative |-> TRUE, count |-> c]
             ELSE BraceScan(s, i + 1, c)

\* The character-set condition of line 76: TRUE when a marker is present.
HasCharset(s) ==
    Contains(s, AnsiMarker) \/ Contains(s, MacMarker) \/ Contains(s, PcMarker)

\* Mutant of is_valid_rtf: the closing-brace test made before the header test.
is_valid_rtf_footer_first(s) ==
    LET stripped == Strip(s)
        scan == BraceScan(s, 1, 0)
    IN  IF stripped = <<>> THEN <<FALSE, EmptyContentMsg>>
        ELSE IF ~EndsWith(stripped, <<"}">>) THEN <<FALSE, MissingClosingMsg>>
        ELSE IF ~StartsWith(stripped, RtfHeader) THEN <<FALSE, MissingHeaderMsg>>
        ELSE IF scan.negative THEN <<FALSE, MoreClosingMsg>>
        ELSE IF scan.count # 0 THEN <<FALSE, DifferenceMsg(scan.count)>>
        ELSE IF ~HasCharset(s) THEN <<FALSE, MissingCharsetMsg>>
        ELSE <<TRUE, ValidRtfMsg>>

\* Mutant of is_valid_rtf: the test of the final counter left out.
is_valid_rtf_no_final_check(s) ==
    LET stripped == Strip(s)
        scan == BraceScan(s, 1, 0)
    IN  IF stripped = <<>> THEN <<FALSE, EmptyContentMsg>>
        ELSE IF ~StartsWith(stripped, RtfHeader) THEN <<FALSE, MissingHeaderMsg>>
        ELSE IF ~EndsWith(stripped, <<"}">>) THEN <<FALSE, MissingClosingMsg>>
        ELSE IF scan.negative THEN <<FALSE, MoreClosingMsg>>
        ELSE IF ~HasCharset(s) THEN <<FALSE, MissingCharsetMsg>>
        ELSE <<TRUE, ValidRtfMsg>>

\* is_valid_rtf(content): the returned (is_valid, error_message).
is_valid_rtf(s) ==
    LET stripped == Strip(s)
        scan == BraceScan(s, 1, 0)
    IN  IF stripped = <<>> THEN <<FALSE, EmptyContentMsg>>
        ELSE IF ~StartsWith(stripped, RtfHeader) THEN <<FALSE, MissingHeaderMsg>>
        ELSE IF ~EndsWith(stripped, <<"}">>) THEN <<FALSE, MissingClosingMsg>>
        ELSE IF scan.negative THEN <<FALSE, MoreClosingMsg>>
        ELSE IF scan.count # 0 THEN <<FALSE, DifferenceMsg(scan.count)>>
        ELSE IF ~HasCharset(s) THEN <<FALSE, MissingCharsetMsg>>
        ELSE <<TRUE, ValidRtfMsg>>

\* The pieces the inputs of is_valid_rtf are built from.
RtfFragments ==
    { <<"{">>, <<"}">>, <<" ">>, <<"\\", "r", "t", "f">>,
      AnsiMarker, MacMarker, PcMarker }

\* Every concatenation of at most n fragments of F.
Inputs(F, n) == { Flatten(fs) : fs \in UNION { [1..k -> F] : k \in 0..n } }

RtfInputs == Inputs(RtfFragments, MaxRtfFrags)

InitRTF ==
    /\ pc = "start"
    /\ content \in RtfInputs
    /\ is_valid = FALSE
    /\ error_message = <<>>
    /\ NormIdle
    /\ CmpIdle
    /\ ExtractIdle
    /\ PollIdle

\* One call is_valid_rtf(content).
IsValidRtf ==
    /\ pc = "start"
    /\ pc' = "returned"
    /\ is_valid' = is_valid_rtf(content)[1]
    /\ error_message' = is_valid_rtf(content)[2]
    /\ UNCHANGED <<content, normVars, cmpVars, extractVars, pollVars>>

NextRTF == IsValidRtf

SpecRTF == InitRTF /\ [][NextRTF]_vars

(***************************************************************************)
(* Properties of is_valid_rtf, stated without the scanning loop.           *)
(***************************************************************************)
\* The running depth of s after its first k characters.
Depth(s, k) ==
    Cardinality({i \in 1..k : s[i] = "{"}) - Cardinality({i \in 1..k : s[i] = "}"})

\* The running depth of s is negative after some prefix.
WentNegative(s) == \E k \in 1..Len(s) : Depth(s, k) < 0

\* s is brace-balanced.
Balanced(s) == ~WentNegative(s) /\ Depth(s, Len(s)) = 0

\* s is empty or whitespace only.
Blank(s) == \A i \in 1..Len(s) : IsSpace(s[i])

\* s, trimmed, starts with the header.
HasHeader(s) == StartsWith(Strip(s), RtfHeader)

\* s, trimmed, ends with a closing brace.
HasFooter(s) == EndsWith(Strip(s), <<"}">>)

\* The lowest-numbered gate s fails; 0 when it fails none.
FirstFailingGate(s) ==
    IF Blank(s) THEN 1
    ELSE IF ~HasHeader(s) THEN 2
    ELSE IF ~HasFooter(s) THEN 3
    ELSE IF ~Balanced(s) THEN 4
    ELSE IF ~(\E m \in {AnsiMarker, MacMarker, PcMarker} : Contains(s, m)) THEN 5
    ELSE 0

\* C1: a non-empty input that, trimmed, starts with {\rtf and ends with },
\* contains \ansi and is brace-balanced is returned as (True, "Valid RTF").
C1_WellFormedIsValid ==
    ( /\ pc = "returned"
      /\ ~Blank(content)
      /\ HasHeader(content)
      /\ HasFooter(content)
      /\ Contains(content, AnsiMarker)
      /\ Balanced(content) )
    => (is_valid = TRUE /\ error_message = ValidRtfMsg)

\* C1 witness: such an input, with whitespace before the header, has been
\* validated.
C1_Witness ==
    /\ pc = "returned"
    /\ HasHeader(content)
    /\ HasFooter(content)
    /\ Contains(content, AnsiMarker)
    /\ Balanced(content)
    /\ IsSpace(content[1])
    /\ is_valid = TRUE

\* The reasons is_valid_rtf gives to the inputs whose first failing gate is g.
ReasonsOfGate ==
    [g \in 1..5 |->
        { is_valid_rtf(s)[2] : s \in {x \in RtfInputs : FirstFailingGate(x) = g} }]

\* C2 as stated: the result is valid exactly when no gate fails, and the
\* reason is the one reason of the lowest-numbered failing gate (every input
\* failing first at that gate gets this same reason).
C2_OneReasonPerGate ==
    pc = "returned" =>
        LET g == FirstFailingGate(content)
        IN  /\ is_valid = (g = 0)
            /\ g # 0 => ReasonsOfGate[g] = {error_message}

\* C2 as amended: the result is valid exactly when no gate fails and the
\* reason belongs to the lowest-numbered failing gate; gates 1, 2, 3 and 5
\* have one reason each, gate 4 has "more closing than opening" when the depth
\* goes negative and "difference: n", n the final depth, otherwise.
C2_FirstFailingGateReason ==
    pc = "returned" =>
        LET g == FirstFailingGate(content)
        IN  /\ is_valid = (g = 0)
            /\ error_message =
                 CASE g = 0 -> ValidRtfMsg
                   [] g = 1 -> EmptyContentMsg
                   [] g = 2 -> MissingHeaderMsg
                   [] g = 3 -> MissingClosingMsg
                   [] g = 4 -> IF WentNegative(content) THEN MoreClosingMsg
                               ELSE DifferenceMsg(Depth(content, Len(content)))
                   [] g = 5 -> MissingCharsetMsg

\* C2 witness: an input failing the header, the footer, the brace and the
\* character-set gate at once has been given the header reason.
C2_Witness ==
    /\ pc = "returned"
    /\ ~Blank(content)
    /\ ~HasHeader(content)
    /\ ~HasFooter(content)
    /\ ~Balanced(content)
    /\ ~Contains(content, AnsiMarker)
    /\ error_message = MissingHeaderMsg

\* C3 as stated: a non-empty input whose depth goes negative at some prefix
\* gets "Unbalanced braces (more closing than opening)", also when it fails
\* the header or the closing-brace check.
C3_NegativeDepthAlwaysReported ==
    (pc = "returned" /\ ~Blank(content) /\ WentNegative(content))
    => (is_valid = FALSE /\ error_message = MoreClosingMsg)

\* C3 as amended: a non-empty input whose depth goes negative at some prefix
\* is invalid; it gets "Unbalanced braces (more closing than opening)" when
\* it passes the header and the closing-brace check, and the reason of the
\* first of these two checks it fails otherwise.
C3_NegativeDepthAfterHeaderFooter ==
    (pc = "returned" /\ ~Blank(content) /\ WentNegative(content))
    => /\ is_valid = FALSE
       /\ error_message =
            IF ~HasHeader(content) THEN MissingHeaderMsg
            ELSE IF ~HasFooter(content) THEN MissingClosingMsg
            ELSE MoreClosingMsg

\* C3 witness: an input with header and closing brace whose depth goes
\* negative has been given the "more closing" reason.
C3_Witness ==
    /\ pc = "returned"
    /\ HasHeader(content)
    /\ HasFooter(content)
    /\ WentNegative(content)
    /\ error_message = MoreClosingMsg

BraceWord == <<"b", "r", "a", "c", "e">>
MoreClosingWords ==
    <<"m", "o", "r", "e", " ", "c", "l", "o", "s", "i", "n", "g", " ", "t",
      "h", "a", "n", " ", "o", "p", "e", "n", "i", "n", "g">>
DifferenceWord ==
    <<"d", "i", "f", "f", "e", "r", "e", "n", "c", "e", ":", " ">>

\* C4: an input with the header whose braces are not balanced is rejected
\* with a reason containing "brace" (case-insensitive); with header and
\* trailing } present, a depth going negative gives the "more closing than
\* opening" reason and a missing closer a reason carrying the positive
\* difference.
C4_UnbalancedGetsBraceReason ==
    (pc = "returned" /\ HasHeader(content) /\ ~Balanced(content))
    => /\ is_valid = FALSE
       /\ Contains(Lower(error_message), BraceWord)
       /\ (HasFooter(content) /\ WentNegative(content))
            => Contains(error_message, MoreClosingWords)
       /\ (HasFooter(content) /\ ~WentNegative(content))
            => /\ Depth(content, Len(content)) > 0
               /\ Contains(error_message,
                     DifferenceWord \o IntToStr(Depth(content, Len(content))))

\* C4 witness: an input with header and trailing } that misses two closers
\* has been rejected with the difference 2.
C4_Witness ==
    /\ pc = "returned"
    /\ HasHeader(content)
    /\ HasFooter(content)
    /\ ~WentNegative(content)
    /\ Depth(content, Len(content)) = 2
    /\ is_valid = FALSE
    /\ Contains(error_message, DifferenceWord \o <<"2">>)

\* C5: an empty or whitespace-only input is returned as
\* (False, "Empty content"), whatever else it fails.
C5_BlankIsEmptyContent ==
    (pc = "returned" /\ Blank(content))
    => (is_valid = FALSE /\ error_message = EmptyContentMsg)

\* C5 witness: a whitespace-only input of two or more characters has been
\* validated.
C5_Witness ==
    /\ pc = "returned"
    /\ Len(content) >= 2
    /\ Blank(content)
    /\ error_message = EmptyContentMsg

(***************************************************************************)
(* TextNormalizer.normalize                                                *)
(***************************************************************************)
\* re.sub(r"\s+", " ", s) from character i on: every run of whitespace
\* becomes one space.
RECURSIVE CollapseFrom(_, _)
CollapseFrom(s, i) ==
    IF i > Len(s) THEN <<>>
    ELSE IF IsSpace(s[i]) THEN <<" ">> \o CollapseFrom(s, FirstNonSpace(s, i))
    ELSE <<s[i]>> \o CollapseFrom(s, i + 1)

\* re.sub(r"\s+", " ", s)
CollapseSpaces(s) == CollapseFrom(s, 1)

\* s.replace(old, new) from character i on, old not empty: the occurrences of
\* old are taken from the left and do not overlap.
RECURSIVE ReplaceFrom(_, _, _, _)
ReplaceFrom(s, i, old, new) ==
    IF i > Len(s) THEN <<>>
    ELSE IF i + Len(old) - 1 <= Len(s) /\ SubSeq(s, i, i + Len(old) - 1) = old
         THEN new \o ReplaceFrom(s, i + Len(old), old, new)
         ELSE <<s[i]>> \o ReplaceFrom(s, i + 1, old, new)

\* s.replace(old, new)
Replace(s, old, new) == ReplaceFrom(s, 1, old, new)

\* The first argument of the one replace call of line 182: the triple-quoted
\* literal """, '"').replace(""" is the 15 characters , '"').replace(
Line182Old ==
    <<",", " ", "'", "\"", "'", ")", ".", "r", "e", "p", "l", "a", "c", "e",
      "(">>

\* normalize(text)
normalize(s) ==
    LET lowered == Lower(s)
        spaced == Strip(CollapseSpaces(lowered))
        dashed == Replace(Replace(spaced, <<"EMDASH">>, <<"-">>),
                          <<"ENDASH">>, <<"-">>)
        line182 == Replace(dashed, Line182Old, <<"\"">>)
        line183 == Replace(Replace(line182, <<"'">>, <<"'">>), <<"'">>, <<"'">>)
    IN  line183

\* The pieces the inputs of normalize are built from.
NormFragments ==
    { <<"A">>, <<" ">>, <<"\t">>, <<"EMDASH">>, <<"ENDASH">>,
      <<"LDQUO">>, <<"RDQUO">>, <<"LSQUO">>, <<"RSQUO">>,
      <<",", " ", "'">>, Line182Old,
      <<"'", ")", ".", "r", "e", "p", "l", "a", "c", "e", "(">> }

NormInputs == Inputs(NormFragments, MaxNormFrags)

InitNorm ==
    /\ pc = "start"
    /\ text \in NormInputs
    /\ normalized = <<>>
    /\ renormalized = <<>>
    /\ RtfIdle
    /\ CmpIdle
    /\ ExtractIdle
    /\ PollIdle

\* One call normalize(text).
Normalize ==
    /\ pc = "start"
    /\ pc' = "normalized"
    /\ normalized' = normalize(text)
    /\ UNCHANGED <<text, renormalized, rtfVars, cmpVars, extractVars, pollVars>>

\* One call normalize(normalized), of normalize on its own result.
NormalizeAgain ==
    /\ pc = "normalized"
    /\ pc' = "renormalized"
    /\ renormalized' = normalize(normalized)
    /\ UNCHANGED <<text, normalized, rtfVars, cmpVars, extractVars, pollVars>>

NextNorm == Normalize \/ NormalizeAgain

SpecNorm == InitNorm /\ [][NextNorm]_vars

(***************************************************************************)
(* Properties of normalize.                                                *)
(***************************************************************************)
\* The ASCII character the claim gives a typographic character; any other
\* character is itself.
Canonical(c) ==
    CASE c \in {"EMDASH", "ENDASH"} -> "-"
      [] c \in {"LDQUO", "RDQUO"} -> "\""
      [] c \in {"LSQUO", "RSQUO"} -> "'"
      [] OTHER -> c

\* The text lowercased, its whitespace runs collapsed and trimmed, its
\* dashes and smart quotes made ASCII, and nothing else changed.
Canonicalized(s) ==
    LET t == Strip(CollapseSpaces(Lower(s)))
    IN  [i \in 1..Len(t) |-> Canonical(t[i])]

\* C6: normalize returns the text lowercased, whitespace-collapsed and
\* trimmed, with em and en dashes replaced by "-", smart double quotes by
\* the ASCII double quote and smart single quotes by the ASCII single quote,
\* and no other character changed.
C6_NormalizeCanonicalizes ==
    pc \in {"normalized", "renormalized"} => normalized = Canonicalized(text)

\* C7: normalize is idempotent: normalize(normalize(x)) = normalize(x).
C7_NormalizeIdempotent ==
    pc = "renormalized" => renormalized = normalized

(***************************************************************************)
(* TextNormalizer.assert_normalized_equal                                  *)
(***************************************************************************)
\* The index of the first whitespace character of s at or after i;
\* Len(s) + 1 when there is none.
RECURSIVE FirstSpace(_, _)
FirstSpace(s, i) ==
    IF i > Len(s) THEN i
    ELSE IF IsSpace(s[i]) THEN i ELSE FirstSpace(s, i + 1)

\* s.split() from character i on: the maximal runs without whitespace.
RECURSIVE SplitFrom(_, _)
SplitFrom(s, i) ==
    LET j == FirstNonSpace(s, i)
        k == FirstSpace(s, j)
    IN  IF j > Len(s) THEN <<>>
        ELSE <<SubSeq(s, j, k - 1)>> \o SplitFrom(s, k)

\* set(s.split())
Words(s) == LET ws == SplitFrom(s, 1) IN { ws[i] : i \in 1..Len(ws) }

\* The default of the parameter tolerance, 0.85, in percent.
DefaultTolerance == 85

\* Mutant of assert_normalized_equal: the matching words are divided by the
\* number of actual words.
assert_normalized_equal_over_actual(a, e, tol) ==
    LET norm_actual == normalize(a)
        norm_expected == normalize(e)
        actual_words == Words(norm_actual)
        expected_words == Words(norm_expected)
        matching == Cardinality(actual_words \cap expected_words)
    IN  IF Contains(norm_actual, norm_expected)
        THEN [outcome |-> "True", report |-> <<>>]
        ELSE IF expected_words = {}
        THEN [outcome |-> "False", report |-> <<>>]
        ELSE IF matching * 100 < tol * Cardinality(actual_words)
        THEN [outcome |-> "AssertionError",
              report |-> <<matching, Cardinality(expected_words)>>]
        ELSE [outcome |-> "True", report |-> <<>>]

\* Mutant of assert_normalized_equal: raises at similarity <= tolerance.
assert_normalized_equal_strict(a, e, tol) ==
    LET norm_actual == normalize(a)
        norm_expected == normalize(e)
        actual_words == Words(norm_actual)
        expected_words == Words(norm_expected)
        matching == Cardinality(actual_words \cap expected_words)
    IN  IF Contains(norm_actual, norm_expected)
        THEN [outcome |-> "True", report |-> <<>>]
        ELSE IF expected_words = {}
        THEN [outcome |-> "False", report |-> <<>>]
        ELSE IF matching * 100 <= tol * Cardinality(expected_words)
        THEN [outcome |-> "AssertionError",
              report |-> <<matching, Cardinality(expected_words)>>]
        ELSE [outcome |-> "True", report |-> <<>>]

\* assert_normalized_equal(actual, expected, tolerance), tolerance in percent:
\* what the call returns or raises, and the counts (matching,
\* len(expected_words)) in the message of the AssertionError.  The test
\* similarity < tolerance, matching / len(expected_words) < tol / 100, is
\* made on integers: matching * 100 < tol * len(expected_words).
assert_normalized_equal(a, e, tol) ==
    LET norm_actual == normalize(a)
        norm_expected == normalize(e)
        actual_words == Words(norm_actual)
        expected_words == Words(norm_expected)
        matching == Cardinality(actual_words \cap expected_words)
    IN  IF Contains(norm_actual, norm_expected)
        THEN [outcome |-> "True", report |-> <<>>]
        ELSE IF expected_words = {}
        THEN [outcome |-> "False", report |-> <<>>]
        ELSE IF matching * 100 < tol * Cardinality(expected_words)
        THEN [outcome |-> "AssertionError",
              report |-> <<matching, Cardinality(expected_words)>>]
        ELSE [outcome |-> "True", report |-> <<>>]

\* Every string of at most n characters of C.
Strings(C, n) == UNION { [1..k -> C] : k \in 0..n }

\* The characters the arguments actual and expected are made of: the letter
\* b is upper case in actual, so that it matches only once lowered.
ActualChars == {"a", "B", " "}
ExpectedChars == {"a", "b", " "}

\* The values of tolerance: the default, the 0.80 of test_full_pipeline,
\* and one half.
Tolerances == {DefaultTolerance, 80, 50}

\* The words a later call finds added to actual.
ExtraWords == { <<"B">>, <<"a", "B">>, <<"c">> }

InitCmp ==
    /\ pc = "start"
    /\ actual \in Strings(ActualChars, MaxActualLen)
    /\ expected \in Strings(ExpectedChars, MaxExpectedLen)
    /\ tolerance \in Tolerances
    /\ outcome = "none"
    /\ report = <<>>
    /\ RtfIdle
    /\ NormIdle
    /\ ExtractIdle
    /\ PollIdle

\* One call assert_normalized_equal(actual, expected, tolerance).
Compare ==
    /\ pc = "start"
    /\ pc' = "returned"
    /\ LET raised_or_returned == assert_normalized_equal(actual, expected, tolerance)
       IN  /\ outcome' = raised_or_returned.outcome
           /\ report' = raised_or_returned.report
    /\ UNCHANGED <<actual, expected, tolerance, rtfVars, normVars, extractVars, pollVars>>

\* A second call, on actual with a word added that is not an expected word.
Extend ==
    /\ pc = "returned"
    /\ pc' = "extended"
    /\ \E w \in ExtraWords :
         /\ Words(normalize(w)) \cap Words(normalize(expected)) = {}
         /\ actual' = actual \o <<" ">> \o w
    /\ LET raised_or_returned == assert_normalized_equal(actual', expected, tolerance)
       IN  /\ outcome' = raised_or_returned.outcome
           /\ report' = raised_or_returned.report
    /\ UNCHANGED <<expected, tolerance, rtfVars, normVars, extractVars, pollVars>>

NextCmp == Compare \/ Extend

SpecCmp == InitCmp /\ [][NextCmp]_vars

(***************************************************************************)
(* Properties of assert_normalized_equal.                                  *)
(***************************************************************************)
\* A call has been made.
Called == pc \in {"returned", "extended"}

\* The word set of a normalized argument: A of actual, E of expected.
WordSet(s) == Words(normalize(s))
ActualWordSet == WordSet(actual)
ExpectedWordSet == WordSet(expected)

\* |A \cap E| of the arguments a and e
MatchedOf(a, e) == Cardinality(WordSet(a) \cap WordSet(e))
Matched == MatchedOf(actual, expected)

\* Normalized e is a substring of normalized a.
ExpectedIn(a, e) == Contains(normalize(a), normalize(e))
ExpectedInActual == ExpectedIn(actual, expected)

\* similarity < tolerance, and similarity = tolerance, of the current
\* arguments when E is not empty.
SimilarityBelow == Matched * 100 < tolerance * Cardinality(ExpectedWordSet)
SimilarityAtTolerance == Matched * 100 = tolerance * Cardinality(ExpectedWordSet)

\* C8: when expected normalizes to an empty word set, the call returns False
\* (it neither returns True nor raises).
C8_EmptyExpectedRejected ==
    (Called /\ ExpectedWordSet = {}) => outcome = "False"

\* C9 as stated: whenever the call returns True, |A \cap E| / |E| is at
\* least tolerance (for an empty E the cross-multiplied inequality holds).
C9_TrueOnlyWithCoverage ==
    (Called /\ outcome = "True") => ~SimilarityBelow

\* C9 as amended: whenever the call returns True, normalized expected is a
\* substring of normalized actual, or E is not empty and |A \cap E| / |E| is
\* at least tolerance.
C9_TrueOnlyWithSubstringOrCoverage ==
    (Called /\ outcome = "True")
    => \/ ExpectedInActual
       \/ (ExpectedWordSet # {} /\ ~SimilarityBelow)

\* C9 witness: a call returned True on the word count alone, with expected
\* no substring of actual and not every expected word matched.
C9_Witness ==
    /\ pc = "returned"
    /\ outcome = "True"
    /\ ~ExpectedInActual
    /\ Matched < Cardinality(ExpectedWordSet)
    /\ ~SimilarityBelow

\* The outcome of the word-count branch is the one of the claim.
SimilarityOutcome ==
    (Called /\ ~ExpectedInActual /\ ExpectedWordSet # {})
    => outcome = IF SimilarityBelow THEN "AssertionError" ELSE "True"

\* A step from a call in the word-count branch to a call whose actual has
\* gained words, none of them in E.
AddsWordsOutsideE ==
    /\ pc = "returned"
    /\ pc' = "extended"
    /\ ~ExpectedInActual
    /\ ExpectedWordSet # {}
    /\ expected' = expected
    /\ tolerance' = tolerance
    /\ LET before == ActualWordSet
           after == WordSet(actual')
       IN  before \subseteq after /\ (after \ before) \cap ExpectedWordSet = {}

\* C10 as stated: with expected no substring of actual and E not empty, the
\* call raises AssertionError exactly when |A \cap E| / |E| < tolerance and
\* returns True otherwise; adding to actual words that are not in E never
\* changes this outcome.
C10_AddedWordsNeverChangeOutcome ==
    /\ []SimilarityOutcome
    /\ [][AddsWordsOutsideE => outcome' = outcome]_vars

\* C10 as amended: the same, but adding to actual words that are not in E
\* leaves the outcome unchanged only while normalized expected is still no
\* substring of the normalized extended actual; when it has become one, the
\* call returns True.
C10_AddedWordsChangeOutcomeOnlyBySubstring ==
    /\ []SimilarityOutcome
    /\ [][AddsWordsOutsideE =>
            outcome' = IF ExpectedIn(actual', expected') THEN "True"
                       ELSE outcome]_vars

\* C10 witness: after a word outside E was added, a call in the word-count
\* branch returned True at similarity = tolerance.
C10_Witness ==
    /\ pc = "extended"
    /\ ~ExpectedInActual
    /\ ExpectedWordSet # {}
    /\ SimilarityAtTolerance
    /\ outcome = "True"

(***************************************************************************)
(* RTFValidator.extract_visible_text                                       *)
(***************************************************************************)
\* The character classes of the pattern of line 85.
LowerSet == { LowerLetters[i] : i \in 1..26 }
Digits == {"0", "1", "2", "3", "4", "5", "6", "7", "8", "9"}

\* The index of the first character of s at or after i that is not in C;
\* Len(s) + 1 when there is none: where a greedy run of C from i ends.
RECURSIVE RunEnd(_, _, _)
RunEnd(s, i, C) ==
    IF i > Len(s) THEN i
    ELSE IF s[i] \in C THEN RunEnd(s, i + 1, C) ELSE i

\* A match of r"\\[a-z0-9]+\d*\s?" at character i of s: the index after the
\* match, 0 when the pattern does not match at i.  Every part is greedy and
\* none can make the match fail once [a-z0-9]+ has one character.
ControlMatchEnd(s, i) ==
    IF s[i] = "\\" /\ i + 1 <= Len(s) /\ s[i + 1] \in LowerSet \cup Digits
    THEN LET word == RunEnd(s, i + 1, LowerSet \cup Digits)
             digits == RunEnd(s, word, Digits)
         IN  IF digits <= Len(s) /\ IsSpace(s[digits]) THEN digits + 1
             ELSE digits
    ELSE 0

\* re.sub(r"\\[a-z0-9]+\d*\s?", " ", s) from character i on.
RECURSIVE SubControlFrom(_, _)
SubControlFrom(s, i) ==
    IF i > Len(s) THEN <<>>
    ELSE LET m == ControlMatchEnd(s, i)
         IN  IF m # 0 THEN <<" ">> \o SubControlFrom(s, m)
             ELSE <<s[i]>> \o SubControlFrom(s, i + 1)

\* re.sub(r"[{}]", " ", s)
SubBraces(s) == [i \in 1..Len(s) |-> IF s[i] \in {"{", "}"} THEN " " ELSE s[i]]

\* extract_visible_text(rtf_content)
extract_visible_text(s) ==
    Strip(CollapseSpaces(SubBraces(SubControlFrom(s, 1))))

\* The characters of the arguments given character by character.
RtfChars == {"\\", "b", "1", " ", "\n", "{", "K"}

InitExtract ==
    /\ pc = "start"
    /\ rtf_content \in Strings(RtfChars, MaxRtfLen)
    /\ plain_tokens = <<>>
    /\ visible_text = <<>>
    /\ RtfIdle
    /\ NormIdle
    /\ CmpIdle
    /\ PollIdle

\* One call extract_visible_text(rtf_content).
ExtractVisibleText ==
    /\ pc = "start"
    /\ pc' = "extracted"
    /\ visible_text' = extract_visible_text(rtf_content)
    /\ UNCHANGED <<rtf_content, plain_tokens, rtfVars, normVars, cmpVars, pollVars>>

NextExtract == ExtractVisibleText

SpecExtract == InitExtract /\ [][NextExtract]_vars

(***************************************************************************)
(* Properties of extract_visible_text.                                     *)
(***************************************************************************)
\* A control-word token at character i of s as the specification defines
\* it: a backslash, one or more lowercase letters, optional digits, at most
\* one trailing space character.  The index after the token, 0 when there is
\* no token at i.
TokenEnd(s, i) ==
    IF s[i] = "\\" /\ i + 1 <= Len(s) /\ s[i + 1] \in LowerSet
    THEN LET digits == RunEnd(s, RunEnd(s, i + 1, LowerSet), Digits)
         IN  IF digits <= Len(s) /\ s[digits] = " " THEN digits + 1 ELSE digits
    ELSE 0

\* s from character i on with every such token replaced by a space.
RECURSIVE TokensToSpaceFrom(_, _)
TokensToSpaceFrom(s, i) ==
    IF i > Len(s) THEN <<>>
    ELSE LET m == TokenEnd(s, i)
         IN  IF m # 0 THEN <<" ">> \o TokensToSpaceFrom(s, m)
             ELSE <<s[i]>> \o TokensToSpaceFrom(s, i + 1)

\* The reference: tokens replaced by a space, then braces replaced by a
\* space, then whitespace collapsed and trimmed.
ReferenceText(s) ==
    LET t == TokensToSpaceFrom(s, 1)
        u == [i \in 1..Len(t) |-> IF t[i] \in {"{", "}"} THEN " " ELSE t[i]]
    IN  Strip(CollapseSpaces(u))

\* C12: extract_visible_text removes exactly the control-word tokens of the
\* specification: for every input its output is that of the reference; a
\* backslash followed directly by a digit is not removed.
C12_ExtractRemovesExactlyControlWords ==
    pc = "extracted" => visible_text = ReferenceText(rtf_content)

(***************************************************************************)
(* extract_visible_text on RTF documents built from known parts.           *)
(***************************************************************************)
\* The items of a document body: plain-text tokens, control words (letters
\* with an optional numeric parameter) with the space delimiter or with
\* none, and group braces.
BodyItems ==
    { [kind |-> "text", chars |-> <<"h", "i">>, delim |-> <<>>],
      [kind |-> "text", chars |-> <<"K", "9">>, delim |-> <<>>],
      [kind |-> "control", chars |-> <<"\\", "b">>, delim |-> <<>>],
      [kind |-> "control", chars |-> <<"\\", "b">>, delim |-> <<" ">>],
      [kind |-> "control", chars |-> <<"\\", "f", "2">>, delim |-> <<>>],
      [kind |-> "control", chars |-> <<"\\", "f", "2">>, delim |-> <<" ">>],
      [kind |-> "open", chars |-> <<"{">>, delim |-> <<>>],
      [kind |-> "close", chars |-> <<"}">>, delim |-> <<>>] }

\* The character that follows item i of body in the document: the first one
\* of the next item, or the closing brace of the document.
FollowingChar(body, i) ==
    IF i = Len(body) THEN "}" ELSE body[i + 1].chars[1]

\* Item i of body is delimited as RTF requires: a control word without the
\* space delimiter is followed by a character that is no digit when it has a
\* numeric parameter, and by one that is no letter, digit or hyphen when it
\* has none.
Delimited(body, i) ==
    (body[i].kind = "control" /\ body[i].delim = <<>>)
    => LET c == FollowingChar(body, i)
       IN  IF body[i].chars[Len(body[i].chars)] \in Digits
           THEN c \notin Digits
           ELSE c \notin LowerSet \cup { UpperLetters[k] : k \in 1..26 }
                          \cup Digits \cup {"-"}

\* The characters of body from item i on; two plain-text tokens in a row are
\* separated by a space.
RECURSIVE RenderFrom(_, _)
RenderFrom(body, i) ==
    IF i > Len(body) THEN <<>>
    ELSE body[i].chars \o body[i].delim
         \o (IF body[i].kind = "text" /\ i < Len(body) /\ body[i + 1].kind = "text"
             THEN <<" ">> ELSE <<>>)
         \o RenderFrom(body, i + 1)

\* The document: {\rtf1\ansi, a space, the body, }.
Document(body) ==
    <<"{", "\\", "r", "t", "f", "1">> \o AnsiMarker \o <<" ">>
    \o RenderFrom(body, 1) \o <<"}">>

\* The plain-text tokens of body, in order.
RECURSIVE TokensFrom(_, _)
TokensFrom(body, i) ==
    IF i > Len(body) THEN <<>>
    ELSE (IF body[i].kind = "text" THEN <<body[i].chars>> ELSE <<>>)
         \o TokensFrom(body, i + 1)

\* The bodies of at most MaxItems items whose control words are delimited as
\* RTF requires and whose document is_valid_rtf accepts.
Bodies ==
    { b \in UNION { [1..k -> BodyItems] : k \in 0..MaxItems } :
        /\ \A i \in 1..Len(b) : Delimited(b, i)
        /\ is_valid_rtf(Document(b))[1] }

InitRoundTrip ==
    /\ pc = "start"
    /\ \E b \in Bodies :
         /\ rtf_content = Document(b)
         /\ plain_tokens = TokensFrom(b, 1)
    /\ visible_text = <<>>
    /\ RtfIdle
    /\ NormIdle
    /\ CmpIdle
    /\ PollIdle

SpecRoundTrip == InitRoundTrip /\ [][NextExtract]_vars

\* The tokens ts joined by single spaces.
RECURSIVE JoinBySpace(_)
JoinBySpace(ts) ==
    IF ts = <<>> THEN <<>>
    ELSE IF Len(ts) = 1 THEN ts[1]
    ELSE ts[1] \o <<" ">> \o JoinBySpace(Tail(ts))

\* C11: on a valid RTF document built from known plain-text tokens, control
\* words and group braces, extract_visible_text returns exactly the
\* plain-text tokens, in order, joined by single spaces.
C11_RoundTripRecoversTokens ==
    pc = "extracted" => visible_text = JoinBySpace(plain_tokens)

\* The round trip on the documents in which no control word with a numeric
\* parameter is directly followed by a lowercase letter.
RoundTripWithoutLetterAfterParameter ==
    (pc = "extracted" /\ ReferenceText(rtf_content) = visible_text)
    => visible_text = JoinBySpace(plain_tokens)

(***************************************************************************)
(* CustomGPTTester.call_custom_gpt                                         *)
(***************************************************************************)
\* The most ticks one sleep or one remote call takes.
MaxDelay == 2

\* timeout = 60, in seconds.
timeout == 60

\* time.sleep(0.5): the tick of the model is the half second.
TicksPerSecond == 2

\* The statuses a run reports; the loop goes on while one of Pending.
Pending == {"queued", "in_progress"}
Statuses ==
    Pending \cup {"completed", "failed", "cancelled", "expired", "requires_action"}

\* An exception; the text of its message is the concatenation of the parts.
Exception(type, message) == [type |-> type, message |-> message]

ApiKeyUnsetMsg == <<"OPENAI_API_KEY environment variable not set">>
ModelIdUnsetMsg == <<"OPENAI_ASSISTANT_ID environment variable not set">>
TimedOutMsg == <<"Assistant run timed out after ">> \o NatToStr(timeout) \o <<"s">>
RunFailedMsg(status) == <<"Assistant run failed with status: ", status>>
NoResponseMsg == <<"No response from assistant">>
ApiCallFailedPrefix == <<"API call failed: ">>

\* The exceptions the openai client raises (connection, authentication,
\* rate limit, ...), and the IndexError of msg.content[0]: all of them are
\* subclasses of Exception.
ClientErrors ==
    { Exception("APIError", <<"Connection error.">>),
      Exception("ImportError", <<"No module named 'openai'">>) }
IndexErrorOfContent == Exception("IndexError", <<"list index out of range">>)

\* The handler without the except clause: the exception goes through.
ExceptNone(e) == e

\* except Exception as e: raise RuntimeError(f"API call failed: {str(e)}")
Except(e) == Exception("RuntimeError", ApiCallFailedPrefix \o e.message)

\* An exception e raised inside the try block reaches the caller as Except(e).
RaiseInTry(e) ==
    /\ pc' = "raised"
    /\ raised' = Except(e)

pollOthers == <<rtfVars, normVars, cmpVars, extractVars>>

InitPoll ==
    /\ pc = "start"
    /\ API_KEY \in BOOLEAN
    /\ MODEL_ID \in BOOLEAN
    /\ run_status = "none"
    /\ elapsed = 0
    /\ result = "none"
    /\ raised = NoException
    /\ RtfIdle
    /\ NormIdle
    /\ CmpIdle
    /\ ExtractIdle

\* if not API_KEY: raise ValueError(...), outside the try block
CheckApiKey ==
    /\ pc = "start"
    /\ IF ~API_KEY
       THEN /\ pc' = "raised"
            /\ raised' = Exception("ValueError", ApiKeyUnsetMsg)
       ELSE /\ pc' = "check_model_id"
            /\ UNCHANGED raised
    /\ UNCHANGED <<API_KEY, MODEL_ID, run_status, elapsed, result, pollOthers>>

\* if not MODEL_ID: raise ValueError(...), outside the try block
CheckModelId ==
    /\ pc = "check_model_id"
    /\ IF ~MODEL_ID
       THEN /\ pc' = "raised"
            /\ raised' = Exception("ValueError", ModelIdUnsetMsg)
       ELSE /\ pc' = "create_client"
            /\ UNCHANGED raised
    /\ UNCHANGED <<API_KEY, MODEL_ID, run_status, elapsed, result, pollOthers>>

\* A remote call that changes nothing of the state of the call: it returns
\* and the call goes on at next, or it raises.
RemoteCall(at, next) ==
    /\ pc = at
    /\ \/ /\ pc' = next
          /\ UNCHANGED raised
       \/ \E e \in ClientErrors : RaiseInTry(e)
    /\ UNCHANGED <<API_KEY, MODEL_ID, run_status, elapsed, result, pollOthers>>

\* from openai import OpenAI; client = OpenAI(api_key=API_KEY)
CreateClient == RemoteCall("create_client", "create_thread")

\* thread = client.beta.threads.create()
CreateThread == RemoteCall("create_thread", "create_message")

\* client.beta.threads.messages.create(...)
CreateMessage == RemoteCall("create_message", "create_run")

\* run = client.beta.threads.runs.create(...); start_time = time.time()
CreateRun ==
    /\ pc = "create_run"
    /\ \/ \E status \in Statuses :
            /\ run_status' = status
            /\ pc' = "loop"
            /\ UNCHANGED raised
       \/ /\ \E e \in ClientErrors : RaiseInTry(e)
          /\ UNCHANGED run_status
    /\ UNCHANGED <<API_KEY, MODEL_ID, elapsed, result, pollOthers>>

\* while run.status in ["queued", "in_progress"]:
\*     if time.time() - start_time > timeout: raise TimeoutError(...)
LoopTest ==
    /\ pc = "loop"
    /\ IF run_status \in Pending
       THEN IF elapsed > timeout * TicksPerSecond
            THEN RaiseInTry(Exception("TimeoutError", TimedOutMsg))
            ELSE /\ pc' = "sleep"
                 /\ UNCHANGED raised
       ELSE /\ pc' = "check_status"
            /\ UNCHANGED raised
    /\ UNCHANGED <<API_KEY, MODEL_ID, run_status, elapsed, result, pollOthers>>

\* time.sleep(0.5): at least one tick goes by
Sleep ==
    /\ pc = "sleep"
    /\ \E d \in 1..MaxDelay : elapsed' = elapsed + d
    /\ pc' = "retrieve"
    /\ UNCHANGED <<API_KEY, MODEL_ID, run_status, result, raised, pollOthers>>

\* run = client.beta.threads.runs.retrieve(...): any status, after any delay
Retrieve ==
    /\ pc = "retrieve"
    /\ \E d \in 0..MaxDelay : elapsed' = elapsed + d
    /\ \/ \E status \in Statuses :
            /\ run_status' = status
            /\ pc' = "loop"
            /\ UNCHANGED raised
       \/ /\ \E e \in ClientErrors : RaiseInTry(e)
          /\ UNCHANGED run_status
    /\ UNCHANGED <<API_KEY, MODEL_ID, result, pollOthers>>

\* if run.status != "completed": raise RuntimeError(...)
CheckStatus ==
    /\ pc = "check_status"
    /\ IF run_status # "completed"
       THEN RaiseInTry(Exception("RuntimeError", RunFailedMsg(run_status)))
       ELSE /\ pc' = "list_messages"
            /\ UNCHANGED raised
    /\ UNCHANGED <<API_KEY, MODEL_ID, run_status, elapsed, result, pollOthers>>

\* messages = client.beta.threads.messages.list(...), then the first message
\* of the assistant: its text is returned, its empty content raises
\* IndexError, and without such a message RuntimeError is raised.
ListMessages ==
    /\ pc = "list_messages"
    /\ \/ /\ pc' = "returned"
          /\ result' = "text"
          /\ UNCHANGED raised
       \/ /\ \E e \in ClientErrors \cup
                      {IndexErrorOfContent, Exception("RuntimeError", NoResponseMsg)} :
                RaiseInTry(e)
          /\ UNCHANGED result
    /\ UNCHANGED <<API_KEY, MODEL_ID, run_status, elapsed, pollOthers>>

NextPoll ==
    \/ CheckApiKey
    \/ CheckModelId
    \/ CreateClient
    \/ CreateThread
    \/ CreateMessage
    \/ CreateRun
    \/ LoopTest
    \/ Sleep
    \/ Retrieve
    \/ CheckStatus
    \/ ListMessages

\* The interpreter goes on running the call, every remote call and every
\* sleep comes back: a step that can be taken is taken.
SpecPoll == InitPoll /\ [][NextPoll]_vars /\ WF_vars(NextPoll)

(***************************************************************************)
(* Claim C13                                                               *)
(***************************************************************************)
Ended == pc \in {"returned", "raised"}

\* The call is at the loop test with a run still pending after the timeout.
PendingPastTimeout ==
    /\ pc = "loop"
    /\ run_status \in Pending
    /\ elapsed > timeout * TicksPerSecond

\* The call has left the loop with a status other than "completed".
LeftLoopNotCompleted ==
    /\ pc = "check_status"
    /\ run_status # "completed"

\* The caller gets a RuntimeError "API call failed: ..." and no value.
FailedAsRuntimeError(exc, value) ==
    /\ exc.type = "RuntimeError"
    /\ StartsWith(exc.message, ApiCallFailedPrefix)
    /\ value = "none"

\* C13: under any sequence of statuses the call eventually ends; it returns
\* text only if the last status it observed is "completed"; a run pending
\* past the timeout, or a loop left with another status than "completed",
\* makes the call raise and return nothing, and the caller gets a
\* RuntimeError "API call failed: ...", never a TimeoutError.
C13_PollingBoundedAndStatusDecides ==
    /\ <>Ended
    /\ [](pc = "returned" => (run_status = "completed" /\ result = "text"
                               /\ raised = NoException))
    /\ [](raised.type # "TimeoutError")
    /\ [](Ended /\ run_status \notin {"none", "completed"}
            => FailedAsRuntimeError(raised, result))
    /\ [][(PendingPastTimeout \/ LeftLoopNotCompleted)
            => (pc' = "raised" /\ FailedAsRuntimeError(raised', result'))]_vars

\* The call has polled past the timeout and the TimeoutError of the loop
\* has reached the caller wrapped in a RuntimeError.
C13_Witness ==
    /\ pc = "raised"
    /\ run_status \in Pending
    /\ elapsed > timeout * TicksPerSecond
    /\ raised = Exception("RuntimeError", ApiCallFailedPrefix \o TimedOutMsg)
    /\ result = "none"

====
